---- MODULE Spec2Model ----
(***************************************************************************)
(* Rotation of a three-slot API-key secret and its propagation into the    *)
(* X-AWS-API-KEY header rules of application load balancers, as done by    *)
(* SecretsManagerAlb/alb_apikeys_rotator/lambda_function.py.               *)
(*                                                                         *)
(* Text that the program manipulates character by character (secret        *)
(* strings, step names, load-balancer names, keys) is a sequence of        *)
(* one-character strings; text that is only compared is a TLA+ string.     *)
(***************************************************************************)
EXTENDS FiniteSets, Integers, Sequences, TLC

VARIABLES
  RotationEnabled,     \* describe_secret()['RotationEnabled']
  VersionIdsToStages,  \* describe_secret()['VersionIdsToStages']: version id -> set of labels
  SecretString,        \* version id -> stored SecretString, for the versions that have a value
  Rules,               \* rule arn -> [IsDefault, Conditions, Actions] in the elbv2 control plane
  ALBNAME,             \* os.environ.get("ALBNAME", "")
  PageSize,            \* the number of items an elbv2 describe call returns at most
  Unavailable,         \* the rule arns for which elbv2.modify_rule raises ClientError
  inflight,            \* per concurrent invocation: what a create step holds between
                       \* its existence test (line 199) and its put (line 224)
  event,               \* the event of the last invocation of lambda_handler
  result,              \* what that invocation returned or raised
  calls                \* the mutating calls that invocation made, in order

vars == <<RotationEnabled, VersionIdsToStages, SecretString, Rules, ALBNAME,
          PageSize, Unavailable, inflight, event, result, calls>>

-----------------------------------------------------------------------------
(* Bounds *)

\* number of version tokens a rotation can be started for
MaxRotations == 2

\* number of distinct keys the sampled random generator can return
MaxGenKeys == 2

-----------------------------------------------------------------------------
(* Text helpers *)

Quote == "\""
Backslash == "\\"
Apostrophe == "'"

RECURSIVE Concat(_)
\* ''.join(parts)
Concat(parts) ==
  IF parts = <<>> THEN <<>> ELSE Head(parts) \o Concat(Tail(parts))

\* str.replace(old, new) for a one-character old; new is a text (possibly empty)
Replace(s, old, new) ==
  Concat([i \in 1..Len(s) |-> IF s[i] = old THEN new ELSE <<s[i]>>])

UpperCase == <<"A","B","C","D","E","F","G","H","I","J","K","L","M",
               "N","O","P","Q","R","S","T","U","V","W","X","Y","Z">>
LowerCase == <<"a","b","c","d","e","f","g","h","i","j","k","l","m",
               "n","o","p","q","r","s","t","u","v","w","x","y","z">>
Digits == <<"0","1","2","3","4","5","6","7","8","9">>

\* str.lower()
lower(s) ==
  [i \in 1..Len(s) |->
     IF \E j \in 1..Len(UpperCase) : UpperCase[j] = s[i]
     THEN LowerCase[CHOOSE j \in 1..Len(UpperCase) : UpperCase[j] = s[i]]
     ELSE s[i]]

\* a in b, for texts
IsSubstring(a, b) ==
  \E i \in 0..(Len(b) - Len(a)) : SubSeq(b, i + 1, i + Len(a)) = a

-----------------------------------------------------------------------------
(* json.dumps and json.loads, for objects whose values are strings *)

\* the escaping json.dumps applies inside a string literal
EscapeChar(c) ==
  IF c = Quote THEN <<Backslash, Quote>>
  ELSE IF c = Backslash THEN <<Backslash, Backslash>>
  ELSE <<c>>

dumps_str(s) ==
  <<Quote>> \o Concat([i \in 1..Len(s) |-> EscapeChar(s[i])]) \o <<Quote>>

key1 == <<"k","e","y","1">>
key2 == <<"k","e","y","2">>
key3 == <<"k","e","y","3">>

\* json.dumps of the dict {"key1": .., "key2": .., "key3": ..} (insertion order,
\* default separators ", " and ": ")
json_dumps(d) ==
  <<"{">> \o dumps_str(key1) \o <<":", " ">> \o dumps_str(d[key1])
          \o <<",", " ">> \o dumps_str(key2) \o <<":", " ">> \o dumps_str(d[key2])
          \o <<",", " ">> \o dumps_str(key3) \o <<":", " ">> \o dumps_str(d[key3])
          \o <<"}">>

JSONDecodeError == [ok |-> FALSE]

RECURSIVE SkipWs(_, _)
SkipWs(s, i) ==
  IF i <= Len(s) /\ s[i] = " " THEN SkipWs(s, i + 1) ELSE i

RECURSIVE ScanString(_, _, _)
\* i is the position after the opening quote; acc the characters decoded so far
ScanString(s, i, acc) ==
  IF i > Len(s) THEN JSONDecodeError
  ELSE IF s[i] = Quote THEN [ok |-> TRUE, val |-> acc, next |-> i + 1]
  ELSE IF s[i] = Backslash
       THEN IF i + 1 <= Len(s) /\ s[i + 1] \in {Quote, Backslash, "/"}
            THEN ScanString(s, i + 2, Append(acc, s[i + 1]))
            ELSE JSONDecodeError
  ELSE ScanString(s, i + 1, Append(acc, s[i]))

RECURSIVE ParseMembers(_, _, _)
\* i is where a member's name is expected; acc the dict built so far
ParseMembers(s, i, acc) ==
  LET a == SkipWs(s, i) IN
  IF ~(a <= Len(s) /\ s[a] = Quote) THEN JSONDecodeError
  ELSE
  LET k == ScanString(s, a + 1, <<>>) IN
  IF ~k.ok THEN JSONDecodeError
  ELSE
  LET b == SkipWs(s, k.next) IN
  IF ~(b <= Len(s) /\ s[b] = ":") THEN JSONDecodeError
  ELSE
  LET c == SkipWs(s, b + 1) IN
  IF ~(c <= Len(s) /\ s[c] = Quote) THEN JSONDecodeError
  ELSE
  LET v == ScanString(s, c + 1, <<>>) IN
  IF ~v.ok THEN JSONDecodeError
  ELSE
  LET e == SkipWs(s, v.next)
      dict == [x \in (DOMAIN acc) \cup {k.val} |->
                 IF x = k.val THEN v.val ELSE acc[x]]
  IN
  IF e > Len(s) THEN JSONDecodeError
  ELSE IF s[e] = "," THEN ParseMembers(s, e + 1, dict)
  ELSE IF s[e] = "}" /\ SkipWs(s, e + 1) > Len(s) THEN [ok |-> TRUE, val |-> dict]
  ELSE JSONDecodeError

EmptyDict == [x \in {} |-> <<>>]

json_loads(s) ==
  LET a == SkipWs(s, 1) IN
  IF ~(a <= Len(s) /\ s[a] = "{") THEN JSONDecodeError
  ELSE
  LET b == SkipWs(s, a + 1) IN
  IF b <= Len(s) /\ s[b] = "}" /\ SkipWs(s, b + 1) > Len(s)
  THEN [ok |-> TRUE, val |-> EmptyDict]
  ELSE ParseMembers(s, a + 1, EmptyDict)

-----------------------------------------------------------------------------
(* The secret store (boto3 secretsmanager client) *)

AWSCURRENT == "AWSCURRENT"
AWSPENDING == "AWSPENDING"

\* version ids: "v0" holds the secret when rotation is set up, "v1".. are the
\* ClientRequestTokens of the rotations
Token(i) == <<"v", Digits[i + 1]>>

\* the outcome of a step: the exception it raised ("none" when it returned),
\* the store and the rules it leaves, and the mutating calls it made
Outcome(exc, V, S, R, made) ==
  [exc |-> exc, V |-> V, S |-> S, R |-> R, calls |-> made]

Raised(exc) == Outcome(exc, VersionIdsToStages, SecretString, Rules, <<>>)

\* secretsmanager.get_secret_value(SecretId, VersionStage=stage): the values of
\* the versions labelled stage; empty when the call raises ResourceNotFoundException
get_secret(stage) ==
  { SecretString[v] : v \in { w \in DOMAIN SecretString :
                                w \in DOMAIN VersionIdsToStages
                                /\ stage \in VersionIdsToStages[w] } }

\* the existence test looking for the version under the wrong label
get_secret_value_exists_WrongStage(token, stage) ==
  /\ token \in DOMAIN SecretString
  /\ token \in DOMAIN VersionIdsToStages
  /\ "AWSCURRENT" \in VersionIdsToStages[token]

\* secretsmanager.get_secret_value(SecretId, VersionId=token, VersionStage=stage) succeeds
get_secret_value_exists(token, stage) ==
  /\ token \in DOMAIN SecretString
  /\ token \in DOMAIN VersionIdsToStages
  /\ stage \in VersionIdsToStages[token]

\* put_secret_value writing over the value a version has
put_secret_value_Overwrite(token, text, stages) ==
  Outcome("none",
          [v \in (DOMAIN VersionIdsToStages) \cup {token} |->
             IF v = token
             THEN (IF v \in DOMAIN VersionIdsToStages THEN VersionIdsToStages[v] ELSE {})
                  \cup stages
             ELSE VersionIdsToStages[v]],
          [v \in (DOMAIN SecretString) \cup {token} |->
             IF v = token THEN text ELSE SecretString[v]],
          Rules,
          << [op |-> "put_secret_value", ClientRequestToken |-> token,
              SecretString |-> text, VersionStages |-> stages] >>)

\* secretsmanager.put_secret_value(SecretId, ClientRequestToken=token,
\*                                 SecretString=text, VersionStages=stages),
\* as the reference cited at lines 221-223 describes it: for a version that
\* exists with the same value the request is ignored, for one that exists with
\* another value it fails, since a version cannot be modified
put_secret_value(token, text, stages) ==
  IF token \in DOMAIN SecretString
  THEN Outcome(IF SecretString[token] = text THEN "none" ELSE "ResourceExistsException",
               VersionIdsToStages, SecretString, Rules,
               << [op |-> "put_secret_value", ClientRequestToken |-> token,
                   SecretString |-> text, VersionStages |-> stages] >>)
  ELSE
  Outcome("none",
          [v \in (DOMAIN VersionIdsToStages) \cup {token} |->
             IF v = token
             THEN (IF v \in DOMAIN VersionIdsToStages THEN VersionIdsToStages[v] ELSE {})
                  \cup stages
             ELSE VersionIdsToStages[v]],
          [v \in (DOMAIN SecretString) \cup {token} |->
             IF v = token THEN text ELSE SecretString[v]],
          Rules,
          << [op |-> "put_secret_value", ClientRequestToken |-> token,
              SecretString |-> text, VersionStages |-> stages] >>)

NoVersion == <<"N", "o", "n", "e">>

\* secretsmanager.update_secret_version_stage(SecretId, VersionStage=stage,
\*                        MoveToVersionId=to, RemoveFromVersionId=from)
update_secret_version_stage(stage, to, from) ==
  Outcome("none",
          [v \in (DOMAIN VersionIdsToStages) \cup {to} |->
             LET had == IF v \in DOMAIN VersionIdsToStages
                        THEN VersionIdsToStages[v] ELSE {}
             IN IF v = to THEN had \cup {stage}
                ELSE IF v = from THEN had \ {stage}
                ELSE had],
          SecretString,
          Rules,
          << [op |-> "update_secret_version_stage", VersionStage |-> stage,
              MoveToVersionId |-> to, RemoveFromVersionId |-> from] >>)

-----------------------------------------------------------------------------
(* key_generator *)

\* the default of the size parameter
KeySize == 16

chars == UpperCase \o LowerCase \o Digits

\* the keys key_generator(size) can return, sampled: MaxGenKeys of the
\* 62^size texts over chars
key_generator(size) ==
  { [i \in 1..size |-> chars[(((j - 1) * 26 + i - 1) % Len(chars)) + 1]]
      : j \in 1..MaxGenKeys }

-----------------------------------------------------------------------------
(* The load balancers (boto3 elbv2 client) and set_api_key_in_alb *)

\* the load balancers of the account
LoadBalancers ==
  << [LoadBalancerName |-> <<"a","p","i">>, LoadBalancerArn |-> "alb/api"],
     [LoadBalancerName |-> <<"w","e","b">>, LoadBalancerArn |-> "alb/web"] >>

\* the listeners of a load balancer
Listeners(alb_arn) ==
  IF alb_arn = "alb/api"
  THEN << [ListenerArn |-> "listener/api/1"], [ListenerArn |-> "listener/api/2"] >>
  ELSE << [ListenerArn |-> "listener/web/1"] >>

\* the rule arns of a listener, in the order describe_rules returns them
ListenerRuleArns(listener_arn) ==
  IF listener_arn = "listener/api/1" THEN << "rule/1", "rule/2" >>
  ELSE IF listener_arn = "listener/api/2" THEN << "rule/3" >>
  ELSE << "rule/4", "rule/5" >>

RuleArns == {"rule/1", "rule/2", "rule/3", "rule/4", "rule/5"}

\* what a describe call made without Marker returns of a listing: its first page
FirstPage(listing) ==
  SubSeq(listing, 1, IF Len(listing) < PageSize THEN Len(listing) ELSE PageSize)

\* elbv2.describe_load_balancers()['LoadBalancers'], line 106
describe_load_balancers == FirstPage(LoadBalancers)

\* elbv2.describe_listeners(LoadBalancerArn)['Listeners'], line 135
describe_listeners(alb_arn) == FirstPage(Listeners(alb_arn))

\* elbv2.describe_rules(ListenerArn)['Rules'], line 141
describe_rules(listener_arn) ==
  FirstPage([i \in 1..Len(ListenerRuleArns(listener_arn)) |->
               Rules[ListenerRuleArns(listener_arn)[i]]])

\* lines 116-126: ALBNAME empty, or contained in the load balancer's name
rotate_this_alb(alb_name) ==
  (ALBNAME = <<>>) \/ IsSubstring(ALBNAME, alb_name)

\* the test without the comparison of the header's name
IsApiKeyCondition_AnyHeader(condition) ==
  /\ "Field" \in DOMAIN condition
  /\ condition["Field"] = "http-header"

\* the test of lines 154-158
IsApiKeyCondition(condition) ==
  /\ "Field" \in DOMAIN condition
  /\ condition["Field"] = "http-header"
  /\ "HttpHeaderName" \in DOMAIN condition["HttpHeaderConfig"]
  /\ condition["HttpHeaderConfig"]["HttpHeaderName"] = "X-AWS-API-KEY"

\* the loop adding the key to the values instead of replacing them
new_conditions_Append(rule, secret_value) ==
  [i \in 1..Len(rule["Conditions"]) |->
     IF "Field" \in DOMAIN rule["Conditions"][i]
        /\ rule["Conditions"][i]["Field"] = "http-header"
        /\ rule["Conditions"][i]["HttpHeaderConfig"]["HttpHeaderName"] = "X-AWS-API-KEY"
     THEN [rule["Conditions"][i] EXCEPT
             !["HttpHeaderConfig"]["Values"] = Append(@, secret_value)]
     ELSE rule["Conditions"][i]]

\* the loop of lines 151-166 over the rule's conditions
new_conditions(rule, secret_value) ==
  [i \in 1..Len(rule["Conditions"]) |->
     IF IsApiKeyCondition(rule["Conditions"][i])
     THEN [rule["Conditions"][i] EXCEPT !["HttpHeaderConfig"]["Values"] = <<secret_value>>]
     ELSE rule["Conditions"][i]]

\* the loop over the rules without the IsDefault test of line 147
RuleCalls_DefaultToo(rules, secret_value) ==
  [i \in 1..Len(rules) |->
     [op |-> "modify_rule",
      RuleArn |-> rules[i]["RuleArn"],
      Conditions |-> new_conditions(rules[i], secret_value),
      Actions |-> rules[i]["Actions"]]]

\* lines 145-168: the modify_rule calls made for the rules of one listener
RuleCalls(rules, secret_value) ==
  Concat([i \in 1..Len(rules) |->
            IF rules[i]["IsDefault"]
            THEN <<>>
            ELSE << [op |-> "modify_rule",
                     RuleArn |-> rules[i]["RuleArn"],
                     Conditions |-> new_conditions(rules[i], secret_value),
                     Actions |-> rules[i]["Actions"]] >>])

\* lines 138-143: over the listeners of one load balancer
ListenerCalls(listeners, secret_value) ==
  Concat([i \in 1..Len(listeners) |->
            RuleCalls(describe_rules(listeners[i]["ListenerArn"]), secret_value)])

\* lines 106-137: over the load balancers
AlbCalls(secret_value) ==
  Concat([i \in 1..Len(describe_load_balancers) |->
            IF rotate_this_alb(describe_load_balancers[i]["LoadBalancerName"])
            THEN ListenerCalls(
                   describe_listeners(describe_load_balancers[i]["LoadBalancerArn"]),
                   secret_value)
            ELSE <<>>])

RECURSIVE modify_rules(_, _)
\* elbv2.modify_rule(RuleArn, Conditions, Actions), for each call in order
modify_rules(R, made) ==
  IF made = <<>> THEN R
  ELSE modify_rules([R EXCEPT ![Head(made).RuleArn] =
                        [@ EXCEPT !.Conditions = Head(made).Conditions,
                                  !.Actions = Head(made).Actions]],
                    Tail(made))

\* the calls that raise among the modify_rule calls the loops come to
Failing(made) == { i \in 1..Len(made) : made[i].RuleArn \in Unavailable }

\* lines 89-170; secret_value is a text here, never None. No call is in a try
\* block: the first modify_rule that raises ends the function, after the calls
\* before it took effect.
set_api_key_in_alb(secret_value) ==
  LET made == AlbCalls(secret_value)
  IN IF Failing(made) = {}
     THEN Outcome("none", VersionIdsToStages, SecretString,
                  modify_rules(Rules, made), made)
     ELSE LET first == CHOOSE i \in Failing(made) : \A j \in Failing(made) : i <= j
          IN Outcome("ClientError", VersionIdsToStages, SecretString,
                     modify_rules(Rules, SubSeq(made, 1, first - 1)),
                     SubSeq(made, 1, first))

-----------------------------------------------------------------------------
(* The step functions *)

\* lines 214-218
new_secret_value(old_secret_value_json, key) ==
  (key1 :> old_secret_value_json[key2])
    @@ (key2 :> old_secret_value_json[key3])
    @@ (key3 :> key)

\* lines 214-224: the key is drawn and the new value is put
create_put(old_secret_value_json, token) ==
  { put_secret_value(
      token,
      Replace(json_dumps(new_secret_value(old_secret_value_json, k)), Backslash, <<>>),
      {AWSPENDING}) : k \in key_generator(KeySize) }

\* lines 193-229, for the AWSCURRENT value read at line 190
create_from(old_secret_value, token) ==
  LET old_secret_value_json == json_loads(old_secret_value)
  IN IF ~old_secret_value_json.ok THEN {Raised("JSONDecodeError")}
     ELSE IF get_secret_value_exists(token, AWSPENDING) THEN {Raised("none")}
     ELSE IF ~({key2, key3} \subseteq DOMAIN old_secret_value_json.val)
     THEN {Raised("KeyError")}
     ELSE create_put(old_secret_value_json.val, token)

create_secret(token) ==
  IF get_secret(AWSCURRENT) = {} THEN {Raised("ResourceNotFoundException")}
  ELSE UNION { create_from(old, token) : old \in get_secret(AWSCURRENT) }

\* lines 244-249, for the AWSPENDING value read at line 241
set_from(secret_value) ==
  LET secret_value_json ==
        json_loads(Replace(Replace(secret_value, Apostrophe, <<Quote>>), Backslash, <<>>))
  IN IF ~secret_value_json.ok THEN Raised("JSONDecodeError")
     ELSE IF key3 \notin DOMAIN secret_value_json.val THEN Raised("KeyError")
     ELSE set_api_key_in_alb(secret_value_json.val[key3])

set_secret(token) ==
  IF get_secret(AWSPENDING) = {} THEN {Raised("ResourceNotFoundException")}
  ELSE { set_from(secret_value) : secret_value \in get_secret(AWSPENDING) }

\* the test step pushing the key as the set step does
test_secret_Sets(token) == set_secret(token)

test_secret(token) ==
  IF get_secret(AWSCURRENT) = {} \/ get_secret(AWSPENDING) = {}
  THEN {Raised("ResourceNotFoundException")}
  ELSE {Raised("none")}

\* lines 277-287: the versions the loop over VersionIdsToStages can stop at
CurrentVersions ==
  IF \E v \in DOMAIN VersionIdsToStages : AWSCURRENT \in VersionIdsToStages[v]
  THEN { v \in DOMAIN VersionIdsToStages : AWSCURRENT \in VersionIdsToStages[v] }
  ELSE {NoVersion}

\* the stage move without the version to remove the label from
finish_from_NoRemove(current_version, token) ==
  IF current_version = token THEN Raised("none")
  ELSE update_secret_version_stage(AWSCURRENT, token, NoVersion)

\* lines 280-290, for the version the loop stopped at
finish_from(current_version, token) ==
  IF current_version = token THEN Raised("none")
  ELSE update_secret_version_stage(AWSCURRENT, token, current_version)

finish_secret(token) ==
  IF get_secret(AWSPENDING) = {} THEN {Raised("ResourceNotFoundException")}
  ELSE { finish_from(current_version, token) : current_version \in CurrentVersions }

-----------------------------------------------------------------------------
(* lambda_handler *)

createsecret == <<"c","r","e","a","t","e","s","e","c","r","e","t">>
setsecret == <<"s","e","t","s","e","c","r","e","t">>
testsecret == <<"t","e","s","t","s","e","c","r","e","t">>
finishsecret == <<"f","i","n","i","s","h","s","e","c","r","e","t">>

\* what an invocation gives back to its caller
PyNone == [type |-> "NoneType"]
Response == [statusCode |-> 200, body |-> "done."]
Returned(value) == [exc |-> "none", message |-> "", returned |-> value]
Exception(exc, message) == [exc |-> exc, message |-> message, returned |-> PyNone]

NotEnabled == "is not enabled for rotation"
NoStage == "has no stage for rotation"
NotPending == "not set as AWSPENDING for rotation"

Completed(o, res) ==
  [result |-> res, V |-> o.V, S |-> o.S, R |-> o.R, calls |-> o.calls]

\* line 306
TokenOf(ev) ==
  IF "ClientRequestToken" \in DOMAIN ev THEN ev["ClientRequestToken"] ELSE <<>>

\* the dispatch comparing the step as given, without lower()
StepOutcomes_CaseSensitive(step, token) ==
  IF step = createsecret THEN create_secret(token)
  ELSE IF step = setsecret THEN set_secret(token)
  ELSE IF step = testsecret THEN test_secret(token)
  ELSE IF step = finishsecret THEN finish_secret(token)
  ELSE {Raised("none")}

\* lines 348-361
StepOutcomes(step, token) ==
  LET step_lower == lower(step)
  IN IF step_lower = createsecret THEN create_secret(token)
     ELSE IF step_lower = setsecret THEN set_secret(token)
     ELSE IF step_lower = testsecret THEN test_secret(token)
     ELSE IF step_lower = finishsecret THEN finish_secret(token)
     ELSE {Raised("none")}

\* lambda_handler without the AWSPENDING test of lines 327-333
lambda_handler_NoPendingTest(ev) ==
  IF ~RotationEnabled
  THEN {Completed(Raised("ValueError"), Exception("ValueError", NotEnabled))}
  ELSE IF TokenOf(ev) \notin DOMAIN VersionIdsToStages
  THEN {Completed(Raised("ValueError"), Exception("ValueError", NoStage))}
  ELSE IF AWSCURRENT \in VersionIdsToStages[TokenOf(ev)]
  THEN {Completed(Raised("none"), Returned(PyNone))}
  ELSE { Completed(o, IF o.exc = "none" THEN Returned(Response)
                      ELSE Exception(o.exc, ""))
           : o \in StepOutcomes(ev["Step"], TokenOf(ev)) }

\* lambda_handler without the AWSCURRENT test of lines 322-326
lambda_handler_NoCurrentTest(ev) ==
  IF ~RotationEnabled
  THEN {Completed(Raised("ValueError"), Exception("ValueError", NotEnabled))}
  ELSE IF TokenOf(ev) \notin DOMAIN VersionIdsToStages
  THEN {Completed(Raised("ValueError"), Exception("ValueError", NoStage))}
  ELSE IF AWSPENDING \notin VersionIdsToStages[TokenOf(ev)]
  THEN {Completed(Raised("ValueError"), Exception("ValueError", NotPending))}
  ELSE { Completed(o, IF o.exc = "none" THEN Returned(Response)
                      ELSE Exception(o.exc, ""))
           : o \in StepOutcomes(ev["Step"], TokenOf(ev)) }

\* the ways an invocation with event ev can end
lambda_handler(ev) ==
  IF ~RotationEnabled
  THEN {Completed(Raised("ValueError"), Exception("ValueError", NotEnabled))}
  ELSE IF TokenOf(ev) \notin DOMAIN VersionIdsToStages
  THEN {Completed(Raised("ValueError"), Exception("ValueError", NoStage))}
  ELSE IF AWSCURRENT \in VersionIdsToStages[TokenOf(ev)]
  THEN {Completed(Raised("none"), Returned(PyNone))}
  ELSE IF AWSPENDING \notin VersionIdsToStages[TokenOf(ev)]
  THEN {Completed(Raised("ValueError"), Exception("ValueError", NotPending))}
  ELSE { Completed(o, IF o.exc = "none" THEN Returned(Response)
                      ELSE Exception(o.exc, ""))
           : o \in StepOutcomes(ev["Step"], TokenOf(ev)) }

-----------------------------------------------------------------------------
(* Events, initial states, actions *)

SecretId == "apikeys"

StepNames ==
  { <<"c","r","e","a","t","e","S","e","c","r","e","t">>,
    <<"s","e","t","S","e","c","r","e","t">>,
    <<"t","e","s","t","S","e","c","r","e","t">>,
    <<"f","i","n","i","s","h","S","e","c","r","e","t">>,
    <<"F","I","N","I","S","H","S","E","C","R","E","T">>,
    <<"r","o","l","l","b","a","c","k">> }

Tokens == { Token(i) : i \in 0..MaxRotations }

Events ==
  { [Step |-> s, SecretId |-> SecretId] : s \in StepNames }
    \cup { [Step |-> s, SecretId |-> SecretId, ClientRequestToken |-> t]
             : s \in StepNames, t \in Tokens }

NoEvent == [Step |-> <<>>, SecretId |-> SecretId]
NotInvoked == [exc |-> "not invoked", message |-> "", returned |-> PyNone]

Payload(a, b, c) == (key1 :> a) @@ (key2 :> b) @@ (key3 :> c)

\* the secret values rotation can be set up on: plain keys, and keys holding
\* a backslash, a double quote or an apostrophe
PlainPayload == Payload(<<"a","1">>, <<"c","2">>, <<"x","3">>)
BackslashPayload == Payload(<<"a","1">>, <<"c",Backslash,"2">>, <<"x",Backslash,"3">>)
QuotePayload == Payload(<<"a","1">>, <<"c","2">>, <<"x",Quote,"3">>)
ApostrophePayload == Payload(<<"a","1">>, <<"c","2">>, <<"x",Apostrophe,"3">>)

AllAlbs == <<>>
ApiAlbs == <<"a","p">>

old123 == <<"o","l","d","1","2","3">>

ApiKeyCondition(values) ==
  [Field |-> "http-header",
   HttpHeaderConfig |-> [HttpHeaderName |-> "X-AWS-API-KEY", Values |-> values]]

OtherHeaderCondition ==
  [Field |-> "http-header",
   HttpHeaderConfig |-> [HttpHeaderName |-> "X-Forwarded-For", Values |-> << <<"1","0">> >>]]

PathCondition ==
  [Field |-> "path-pattern", Values |-> << <<"/","a","p","i">> >>,
   PathPatternConfig |-> [Values |-> << <<"/","a","p","i">> >>]]

ForwardAction(tg) == [Type |-> "forward", TargetGroupArn |-> tg]

Rule(arn, default, conditions, actions) ==
  [RuleArn |-> arn, IsDefault |-> default, Conditions |-> conditions, Actions |-> actions]

InitRules(values) ==
  ("rule/1" :> Rule("rule/1", FALSE, <<ApiKeyCondition(values), PathCondition>>,
                    <<ForwardAction("tg/api")>>))
  @@ ("rule/2" :> Rule("rule/2", TRUE, <<>>, <<ForwardAction("tg/deny")>>))
  @@ ("rule/3" :> Rule("rule/3", FALSE, <<OtherHeaderCondition, PathCondition>>,
                       <<ForwardAction("tg/api")>>))
  @@ ("rule/4" :> Rule("rule/4", FALSE, <<PathCondition, ApiKeyCondition(values)>>,
                       <<ForwardAction("tg/web")>>))
  @@ ("rule/5" :> Rule("rule/5", TRUE, <<>>, <<ForwardAction("tg/deny")>>))

\* the set-ups explored: the secret's value, the ALBNAME filter, and the
\* values the X-AWS-API-KEY conditions hold
Setups ==
  { [payload |-> PlainPayload, albname |-> AllAlbs, values |-> <<old123>>],
    [payload |-> PlainPayload, albname |-> ApiAlbs, values |-> <<old123>>],
    [payload |-> PlainPayload, albname |-> AllAlbs, values |-> <<PlainPayload[key3]>>],
    [payload |-> BackslashPayload, albname |-> AllAlbs, values |-> <<old123>>],
    [payload |-> QuotePayload, albname |-> ApiAlbs, values |-> <<old123>>],
    [payload |-> ApostrophePayload, albname |-> AllAlbs, values |-> <<old123>>] }

\* the invocations that can run at the same time, and the mark of one that is
\* not between the existence test and the put of a create step
Invocations == {"first", "second"}
Idle == [at |-> "idle"]

\* the state rotation is set up in
SetUp(setup) ==
  /\ inflight = [p \in Invocations |-> Idle]
  /\ RotationEnabled = TRUE
  /\ VersionIdsToStages = (Token(0) :> {AWSCURRENT})
  /\ SecretString = (Token(0) :> json_dumps(setup.payload))
  /\ Rules = InitRules(setup.values)
  /\ ALBNAME = setup.albname
  /\ event = NoEvent
  /\ result = NotInvoked
  /\ calls = <<>>

\* a page size that no listing of the account exceeds
OnePage == Cardinality(RuleArns)

\* every describe call returns its whole listing
Init ==
  \E setup \in Setups :
    /\ SetUp(setup)
    /\ PageSize = OnePage
    /\ Unavailable = {}

\* every describe call returns one item and a marker for the rest, so that the
\* listings of load balancers, listeners and rules span several pages
InitPaged ==
  \E setup \in Setups :
    /\ setup.payload = PlainPayload
    /\ SetUp(setup)
    /\ PageSize = 1
    /\ Unavailable = {}

\* the control plane refuses the update of one rule
InitFailing ==
  \E setup \in Setups :
    /\ setup.payload = PlainPayload
    /\ SetUp(setup)
    /\ PageSize = OnePage
    /\ Unavailable \in {{"rule/1"}, {"rule/3"}}

\* one invocation of the Lambda function
Invoke(ev) ==
  \E o \in lambda_handler(ev) :
    /\ event' = ev
    /\ result' = o.result
    /\ calls' = o.calls
    /\ VersionIdsToStages' = o.V
    /\ SecretString' = o.S
    /\ Rules' = o.R
    /\ UNCHANGED <<RotationEnabled, ALBNAME, PageSize, Unavailable, inflight>>

\* the events that name a given step, and those that name none
EventsFor(step_lower) == { ev \in Events : lower(ev["Step"]) = step_lower }
CreateEvents == EventsFor(createsecret)
SetEvents == EventsFor(setsecret)
TestEvents == EventsFor(testsecret)
FinishEvents == EventsFor(finishsecret)
UnknownEvents == Events \ (CreateEvents \cup SetEvents \cup TestEvents \cup FinishEvents)

CreateSecret == \E ev \in Events : ev \in CreateEvents /\ Invoke(ev)
SetSecret == \E ev \in Events : ev \in SetEvents /\ Invoke(ev)
TestSecret == \E ev \in Events : ev \in TestEvents /\ Invoke(ev)
FinishSecret == \E ev \in Events : ev \in FinishEvents /\ Invoke(ev)
UnknownStep == \E ev \in Events : ev \in UnknownEvents /\ Invoke(ev)

\* a rotation started without taking AWSPENDING from the version that held it
StartRotation_KeepsPending ==
  LET token == Token(Cardinality(DOMAIN VersionIdsToStages)) IN
  /\ RotationEnabled
  /\ Cardinality(DOMAIN VersionIdsToStages) <= MaxRotations
  /\ \A v \in DOMAIN VersionIdsToStages :
       AWSPENDING \in VersionIdsToStages[v] => AWSCURRENT \in VersionIdsToStages[v]
  /\ VersionIdsToStages' =
       [v \in (DOMAIN VersionIdsToStages) \cup {token} |->
          IF v = token THEN {AWSPENDING} ELSE VersionIdsToStages[v]]
  /\ event' = NoEvent
  /\ result' = NotInvoked
  /\ calls' = <<>>
  /\ UNCHANGED <<RotationEnabled, SecretString, Rules, ALBNAME, PageSize, Unavailable,
                 inflight>>

\* Secrets Manager starts a rotation: it attaches AWSPENDING to a new version id,
\* which has no value yet, and then invokes the function with that id as the
\* ClientRequestToken. It starts none while AWSPENDING is on a version other
\* than the AWSCURRENT one.
StartRotation ==
  LET token == Token(Cardinality(DOMAIN VersionIdsToStages)) IN
  /\ RotationEnabled
  /\ Cardinality(DOMAIN VersionIdsToStages) <= MaxRotations
  /\ \A v \in DOMAIN VersionIdsToStages :
       AWSPENDING \in VersionIdsToStages[v] => AWSCURRENT \in VersionIdsToStages[v]
  /\ VersionIdsToStages' =
       [v \in (DOMAIN VersionIdsToStages) \cup {token} |->
          IF v = token THEN {AWSPENDING} ELSE VersionIdsToStages[v] \ {AWSPENDING}]
  /\ event' = NoEvent
  /\ result' = NotInvoked
  /\ calls' = <<>>
  /\ UNCHANGED <<RotationEnabled, SecretString, Rules, ALBNAME, PageSize, Unavailable,
                 inflight>>

\* rotation is switched on or off for the secret
SetRotationEnabled ==
  /\ RotationEnabled' = ~RotationEnabled
  /\ event' = NoEvent
  /\ result' = NotInvoked
  /\ calls' = <<>>
  /\ UNCHANGED <<VersionIdsToStages, SecretString, Rules, ALBNAME, PageSize, Unavailable,
                 inflight>>

Next ==
  \/ CreateSecret
  \/ SetSecret
  \/ TestSecret
  \/ FinishSecret
  \/ UnknownStep
  \/ StartRotation
  \/ SetRotationEnabled

Spec == Init /\ [][Next]_vars

\* the same program against a control plane that paginates
SpecPaged == InitPaged /\ [][Next]_vars

\* the same program against a control plane that refuses a rule update
SpecFailing == InitFailing /\ [][Next]_vars

\* lines 311-333 and 190-213: the AWSCURRENT values, decoded, with which a
\* create invocation with event ev comes to line 214, where it draws the key
create_checked(ev) ==
  IF /\ RotationEnabled
     /\ TokenOf(ev) \in DOMAIN VersionIdsToStages
     /\ AWSCURRENT \notin VersionIdsToStages[TokenOf(ev)]
     /\ AWSPENDING \in VersionIdsToStages[TokenOf(ev)]
     /\ ~get_secret_value_exists(TokenOf(ev), AWSPENDING)
  THEN { json_loads(old_secret_value).val :
           old_secret_value \in
             { old \in get_secret(AWSCURRENT) :
                 /\ json_loads(old).ok
                 /\ {key2, key3} \subseteq DOMAIN json_loads(old).val } }
  ELSE {}

\* an invocation of the create step runs up to its existence test, which finds
\* no value for the token
CreateCheck ==
  \E p \in Invocations : \E ev \in CreateEvents : \E old \in create_checked(ev) :
    /\ inflight[p] = Idle
    /\ inflight' = [inflight EXCEPT
                      ![p] = [at |-> "put", event |-> ev, old_secret_value_json |-> old]]
    /\ event' = NoEvent
    /\ result' = NotInvoked
    /\ calls' = <<>>
    /\ UNCHANGED <<RotationEnabled, VersionIdsToStages, SecretString, Rules, ALBNAME,
                   PageSize, Unavailable>>

\* that invocation draws its key, puts the value and returns
CreatePut ==
  \E p \in Invocations :
    /\ inflight[p] # Idle
    /\ \E o \in create_put(inflight[p].old_secret_value_json, TokenOf(inflight[p].event)) :
         /\ event' = inflight[p].event
         /\ result' = IF o.exc = "none" THEN Returned(Response) ELSE Exception(o.exc, "")
         /\ calls' = o.calls
         /\ VersionIdsToStages' = o.V
         /\ SecretString' = o.S
         /\ Rules' = o.R
    /\ inflight' = [inflight EXCEPT ![p] = Idle]
    /\ UNCHANGED <<RotationEnabled, ALBNAME, PageSize, Unavailable>>

\* rotation set up on a secret with plain keys, with every load balancer selected
InitRace ==
  \E setup \in Setups :
    /\ setup.payload = PlainPayload
    /\ setup.albname = AllAlbs
    /\ setup.values = <<old123>>
    /\ SetUp(setup)
    /\ PageSize = OnePage
    /\ Unavailable = {}

NextRace ==
  \/ CreateCheck
  \/ CreatePut
  \/ CreateSecret
  \/ FinishSecret
  \/ StartRotation

\* invocations of the create step that overlap, next to whole create and finish steps
SpecRace == InitRace /\ [][NextRace]_vars

\* the version a rotation is under way for: it holds AWSPENDING and not AWSCURRENT
Rotating == { v \in DOMAIN VersionIdsToStages :
                AWSPENDING \in VersionIdsToStages[v]
                /\ AWSCURRENT \notin VersionIdsToStages[v] }

\* Secrets Manager invokes the four steps of a rotation in order, each after the
\* step before it returned the success response, and nothing else in between

OrderedCreate ==
  \E ev \in Events :
    /\ ev \in CreateEvents
    /\ event = NoEvent
    /\ TokenOf(ev) \in Rotating
    /\ Invoke(ev)

OrderedSet ==
  \E ev \in Events :
    /\ ev \in SetEvents
    /\ event \in CreateEvents
    /\ result = Returned(Response)
    /\ TokenOf(ev) = TokenOf(event)
    /\ Invoke(ev)

OrderedTest ==
  \E ev \in Events :
    /\ ev \in TestEvents
    /\ event \in SetEvents
    /\ result = Returned(Response)
    /\ TokenOf(ev) = TokenOf(event)
    /\ Invoke(ev)

OrderedFinish ==
  \E ev \in Events :
    /\ ev \in FinishEvents
    /\ event \in TestEvents
    /\ result = Returned(Response)
    /\ TokenOf(ev) = TokenOf(event)
    /\ Invoke(ev)

\* the set-ups, against a control plane that answers in one page and against
\* one that paginates
InitOrdered ==
  \E setup \in Setups :
    /\ SetUp(setup)
    /\ PageSize \in {OnePage, 1}
    /\ Unavailable = {}

NextOrdered ==
  \/ StartRotation
  \/ OrderedCreate
  \/ OrderedSet
  \/ OrderedTest
  \/ OrderedFinish

\* rotations whose steps run in order, one rotation after the other
SpecOrdered == InitOrdered /\ [][NextOrdered]_vars

-----------------------------------------------------------------------------
(* Properties *)

\* the step just taken is an invocation of lambda_handler
Invocation == event' \in Events

\* the invocation made no call that writes and left the store and the rules alone
NoSideEffect ==
  /\ calls' = <<>>
  /\ UNCHANGED <<VersionIdsToStages, SecretString, Rules>>

HasLabel(v, stage) ==
  v \in DOMAIN VersionIdsToStages /\ stage \in VersionIdsToStages[v]

\* the token is in the version map with neither AWSCURRENT nor AWSPENDING
Unstaged(v) ==
  /\ v \in DOMAIN VersionIdsToStages
  /\ AWSCURRENT \notin VersionIdsToStages[v]
  /\ AWSPENDING \notin VersionIdsToStages[v]

\* C1 as stated: an invocation whose token is not in the version map fails
\* with the unknown-version error, one whose token has neither AWSCURRENT nor
\* AWSPENDING fails with the invalid-staging error, and neither has a side effect.
C1_AsStated ==
  [][Invocation =>
       /\ TokenOf(event') \notin DOMAIN VersionIdsToStages =>
            (result' = Exception("ValueError", NoStage) /\ NoSideEffect)
       /\ Unstaged(TokenOf(event')) =>
            (result' = Exception("ValueError", NotPending) /\ NoSideEffect)]_vars

\* C1 amended: such an invocation fails without side effect, whatever the step;
\* with the not-enabled error when rotation is off for the secret, otherwise
\* with the unknown-version, respectively the invalid-staging, error.
C1_BadTokenFails ==
  [][(Invocation /\ (TokenOf(event') \notin DOMAIN VersionIdsToStages
                     \/ Unstaged(TokenOf(event')))) =>
       /\ NoSideEffect
       /\ result' = Exception("ValueError",
                              IF ~RotationEnabled THEN NotEnabled
                              ELSE IF TokenOf(event') \notin DOMAIN VersionIdsToStages
                              THEN NoStage
                              ELSE NotPending)]_vars

\* a create step for a version that lost AWSCURRENT to a finished rotation was
\* refused with the invalid-staging error
C1_Witness ==
  /\ event \in CreateEvents
  /\ RotationEnabled
  /\ Unstaged(TokenOf(event))
  /\ TokenOf(event) \in DOMAIN SecretString
  /\ result = Exception("ValueError", NotPending)
  /\ calls = <<>>

\* C2 as stated: an invocation whose token holds AWSCURRENT succeeds and
\* mutates nothing, whatever the step.
C2_AsStated ==
  [][(Invocation /\ HasLabel(TokenOf(event'), AWSCURRENT)) =>
       (result'.exc = "none" /\ NoSideEffect)]_vars

\* C2 amended: when rotation is enabled for the secret, an invocation whose
\* token holds AWSCURRENT succeeds and mutates nothing, whatever the step; a
\* finish step in particular makes no stage move. When rotation is not
\* enabled, the invocation fails with the not-enabled error and mutates nothing.
C2_ReplayIsNoOp ==
  [][(Invocation /\ HasLabel(TokenOf(event'), AWSCURRENT)) =>
       /\ NoSideEffect
       /\ RotationEnabled => result'.exc = "none"
       /\ ~RotationEnabled => result' = Exception("ValueError", NotEnabled)]_vars

\* the finish step was replayed for a rotated version that holds AWSCURRENT
C2_Witness ==
  /\ event \in FinishEvents
  /\ TokenOf(event) = Token(1)
  /\ HasLabel(Token(1), AWSCURRENT)
  /\ HasLabel(Token(1), AWSPENDING)
  /\ result.exc = "none"
  /\ calls = <<>>

\* C3 as stated: an invocation that does not raise returns the response
\* {statusCode: 200, body: "done."}.
C3_AsStated ==
  (event \in Events /\ result.exc = "none") => result.returned = Response

\* the versions that hold a label
Holders(stage) == { v \in DOMAIN VersionIdsToStages : stage \in VersionIdsToStages[v] }

\* C4: a create step for a token that already has a stored value writes
\* nothing and draws no key, and a create step that succeeded leaves the token
\* as the one version that holds AWSPENDING, with a value.
C4_CreateIsIdempotent ==
  /\ [][(event' \in CreateEvents /\ TokenOf(event') \in DOMAIN SecretString) =>
          NoSideEffect]_vars
  /\ []((event \in CreateEvents /\ result = Returned(Response)) =>
          (TokenOf(event) \in DOMAIN SecretString
           /\ Holders(AWSPENDING) = {TokenOf(event)}))

\* the create step was repeated for a pending token and went through create_secret
C4_Witness ==
  /\ event \in CreateEvents
  /\ result = Returned(Response)
  /\ calls = <<>>
  /\ TokenOf(event) \in DOMAIN SecretString
  /\ HasLabel(TokenOf(event), AWSPENDING)
  /\ ~HasLabel(TokenOf(event), AWSCURRENT)

Alphanumeric ==
  { UpperCase[i] : i \in 1..Len(UpperCase) }
    \cup { LowerCase[i] : i \in 1..Len(LowerCase) }
    \cup { Digits[i] : i \in 1..Len(Digits) }

\* C5 as stated: the value a create step stored reads back as key1 = the
\* AWSCURRENT value's key2, key2 = its key3, key3 = a 16-character alphanumeric key.
C5_AsStated ==
  (event \in CreateEvents /\ calls # <<>>) =>
    LET old == json_loads(SecretString[CHOOSE v \in Holders(AWSCURRENT) : TRUE])
        new == json_loads(SecretString[TokenOf(event)])
    IN /\ new.ok
       /\ new.val[key1] = old.val[key2]
       /\ new.val[key2] = old.val[key3]
       /\ Len(new.val[key3]) = 16
       /\ \A i \in 1..Len(new.val[key3]) : new.val[key3][i] \in Alphanumeric

\* C6: at most one version holds AWSCURRENT, and a finish step that succeeded
\* leaves the label on the token and on no version that held it before.
C6_OneCurrent ==
  /\ [](Cardinality(Holders(AWSCURRENT)) <= 1)
  /\ [][(event' \in FinishEvents /\ result'.exc = "none") =>
          /\ AWSCURRENT \in VersionIdsToStages'[TokenOf(event')]
          /\ \A v \in Holders(AWSCURRENT) :
               v # TokenOf(event') => AWSCURRENT \notin VersionIdsToStages'[v]]_vars

\* a finish step moved AWSCURRENT from the first version onto the token
C6_Witness ==
  /\ event \in FinishEvents
  /\ result = Returned(Response)
  /\ Len(calls) = 1
  /\ calls[1].op = "update_secret_version_stage"
  /\ calls[1].RemoveFromVersionId = Token(0)
  /\ Holders(AWSCURRENT) = {TokenOf(event)}
  /\ TokenOf(event) # Token(0)

\* the modify_rule calls among the calls of the invocation
IsModifyRule(call) == call.op = "modify_rule"

\* C7: no modify_rule call is made for a default rule.
C7_DefaultRulesSkipped ==
  \A i \in DOMAIN calls :
    IsModifyRule(calls[i]) => ~Rules[calls[i].RuleArn].IsDefault

\* a set step updated rule/1 and made no call for rule/2, the default rule of
\* the same listener
C7_Witness ==
  /\ event \in SetEvents
  /\ \E i \in DOMAIN calls : IsModifyRule(calls[i]) /\ calls[i].RuleArn = "rule/1"
  /\ Rules["rule/2"].IsDefault
  /\ \A i \in DOMAIN calls : calls[i].RuleArn # "rule/2"

\* a condition on the X-AWS-API-KEY header
IsSentinel(c) ==
  /\ "Field" \in DOMAIN c
  /\ c.Field = "http-header"
  /\ c.HttpHeaderConfig.HttpHeaderName = "X-AWS-API-KEY"

\* key3 of the value stored under AWSPENDING
PendingSlotC ==
  json_loads(SecretString[CHOOSE v \in Holders(AWSPENDING) : v \in DOMAIN SecretString]).val[key3]

\* the call carries the rule's actions and conditions, but for the values of the
\* X-AWS-API-KEY conditions, which are the one key
SubmittedAsClaimed(rule, call, key) ==
  /\ call.Actions = rule.Actions
  /\ Len(call.Conditions) = Len(rule.Conditions)
  /\ \A j \in 1..Len(rule.Conditions) :
       IF IsSentinel(rule.Conditions[j])
       THEN /\ DOMAIN call.Conditions[j] = DOMAIN rule.Conditions[j]
            /\ call.Conditions[j].Field = rule.Conditions[j].Field
            /\ DOMAIN call.Conditions[j].HttpHeaderConfig
                 = DOMAIN rule.Conditions[j].HttpHeaderConfig
            /\ call.Conditions[j].HttpHeaderConfig.HttpHeaderName
                 = rule.Conditions[j].HttpHeaderConfig.HttpHeaderName
            /\ call.Conditions[j].HttpHeaderConfig.Values = <<key>>
       ELSE call.Conditions[j] = rule.Conditions[j]

\* C8: each modify_rule call of a set step carries the rule's conditions with
\* the values of the X-AWS-API-KEY conditions replaced by [key3 of the pending
\* value] and everything else, the actions included, as it was.
C8_OnlySentinelValuesChange ==
  [][event' \in SetEvents =>
       \A i \in DOMAIN calls' :
         IsModifyRule(calls'[i]) =>
           /\ SubmittedAsClaimed(Rules[calls'[i].RuleArn], calls'[i], PendingSlotC)
           /\ Rules'[calls'[i].RuleArn].Conditions = calls'[i].Conditions
           /\ Rules'[calls'[i].RuleArn].Actions = calls'[i].Actions]_vars

\* a set step replaced the old value of rule/1's X-AWS-API-KEY condition by a
\* generated key and submitted its path condition and its action as they were
C8_Witness ==
  /\ event \in SetEvents
  /\ \E i \in DOMAIN calls :
       /\ IsModifyRule(calls[i])
       /\ calls[i].RuleArn = "rule/1"
       /\ calls[i].Conditions[1].HttpHeaderConfig.Values = <<PendingSlotC>>
       /\ PendingSlotC \in key_generator(16)
       /\ calls[i].Conditions[2] = PathCondition
       /\ calls[i].Actions = <<ForwardAction("tg/api")>>

HasSentinel(rule) ==
  \E j \in 1..Len(rule.Conditions) : IsSentinel(rule.Conditions[j])

\* the rules that are not default and carry no X-AWS-API-KEY condition
PlainRules == { arn \in RuleArns : ~Rules[arn].IsDefault /\ ~HasSentinel(Rules[arn]) }

\* C9 as stated: a set step leaves a non-default rule without X-AWS-API-KEY
\* condition as it is and submits no update for it.
C9_AsStated ==
  [][event' \in SetEvents =>
       \A arn \in PlainRules :
         /\ Rules'[arn] = Rules[arn]
         /\ \A i \in DOMAIN calls' : calls'[i].RuleArn # arn]_vars

\* the rules of the listeners of the load balancers whose name ALBNAME selects
SelectedRuleArns ==
  { arn \in RuleArns :
      \E a \in 1..Len(LoadBalancers) :
        /\ (ALBNAME = <<>> \/ IsSubstring(ALBNAME, LoadBalancers[a].LoadBalancerName))
        /\ \E l \in 1..Len(Listeners(LoadBalancers[a].LoadBalancerArn)) :
             \E r \in 1..Len(ListenerRuleArns(
                               Listeners(LoadBalancers[a].LoadBalancerArn)[l].ListenerArn)) :
               ListenerRuleArns(
                 Listeners(LoadBalancers[a].LoadBalancerArn)[l].ListenerArn)[r] = arn }

\* C9 amended: a set step leaves a non-default rule without X-AWS-API-KEY
\* condition as it is; an update it submits for the rule carries the rule's
\* conditions and actions as they are, and a set step that succeeds submits
\* one for each such rule of a selected load balancer.
C9_PlainRulesKeepTheirContent ==
  [][event' \in SetEvents =>
       \A arn \in PlainRules :
         /\ Rules'[arn] = Rules[arn]
         /\ \A i \in DOMAIN calls' :
              calls'[i].RuleArn = arn =>
                /\ calls'[i].Conditions = Rules[arn].Conditions
                /\ calls'[i].Actions = Rules[arn].Actions
         /\ (result' = Returned(Response) /\ arn \in SelectedRuleArns) =>
              Cardinality({ i \in DOMAIN calls' : calls'[i].RuleArn = arn }) = 1]_vars

\* a set step submitted rule/3, which has no X-AWS-API-KEY condition, as it was
C9_Witness ==
  /\ event \in SetEvents
  /\ "rule/3" \in PlainRules
  /\ \E i \in DOMAIN calls :
       /\ IsModifyRule(calls[i])
       /\ calls[i].RuleArn = "rule/3"
       /\ calls[i].Conditions = <<OtherHeaderCondition, PathCondition>>
       /\ calls[i].Actions = Rules["rule/3"].Actions

\* C10: a set step leaves the version map and the stored values alone and makes
\* no call but modify_rule; a test step makes no call and changes nothing.
C10_SetAndTestWriteNoSecret ==
  [][/\ event' \in SetEvents =>
          /\ UNCHANGED <<VersionIdsToStages, SecretString>>
          /\ \A i \in DOMAIN calls' : IsModifyRule(calls'[i])
     /\ event' \in TestEvents => NoSideEffect]_vars

\* a test step read both values and returned
C10_Witness ==
  /\ event \in TestEvents
  /\ result = Returned(Response)
  /\ calls = <<>>
  /\ Holders(AWSPENDING) \cap DOMAIN SecretString # {}

\* the token passes the tests of lines 311-333: rotation is enabled and the
\* token holds AWSPENDING and not AWSCURRENT
Staged(v) ==
  /\ RotationEnabled
  /\ HasLabel(v, AWSPENDING)
  /\ ~HasLabel(v, AWSCURRENT)

createSecret == <<"c","r","e","a","t","e","S","e","c","r","e","t">>
setSecret == <<"s","e","t","S","e","c","r","e","t">>
testSecret == <<"t","e","s","t","S","e","c","r","e","t">>
finishSecret == <<"f","i","n","i","s","h","S","e","c","r","e","t">>
FINISHSECRET == <<"F","I","N","I","S","H","S","E","C","R","E","T">>
rollback == <<"r","o","l","l","b","a","c","k">>

\* C11: an invocation that passes validation runs at most one step handler,
\* the one its step names whatever the letter case: each kind of mutating call
\* is made for its own step only, a step named createSecret, setSecret,
\* testSecret, finishSecret or FINISHSECRET does what that handler does, and a
\* step that names no handler mutates nothing and returns the success response.
C11_Dispatch ==
  [][(Invocation /\ Staged(TokenOf(event'))) =>
       /\ \A i \in 1..Len(calls') :
            /\ calls'[i].op = "put_secret_value" => event'["Step"] = createSecret
            /\ calls'[i].op = "modify_rule" => event'["Step"] = setSecret
            /\ calls'[i].op = "update_secret_version_stage" =>
                 event'["Step"] \in {finishSecret, FINISHSECRET}
       /\ (event'["Step"] = createSecret /\ TokenOf(event') \notin DOMAIN SecretString
           /\ result'.exc = "none") =>
            (Len(calls') = 1 /\ calls'[1].op = "put_secret_value")
       /\ (event'["Step"] \in {setSecret, testSecret}
           /\ TokenOf(event') \notin DOMAIN SecretString) =>
            (result'.exc = "ResourceNotFoundException" /\ NoSideEffect)
       /\ (event'["Step"] \in {finishSecret, FINISHSECRET}
           /\ TokenOf(event') \in DOMAIN SecretString) =>
            /\ result' = Returned(Response)
            /\ Len(calls') = 1
            /\ calls'[1].op = "update_secret_version_stage"
       /\ event'["Step"] = rollback =>
            (NoSideEffect /\ result' = Returned(Response))]_vars

\* a finish step named in capitals moved AWSCURRENT to its token
C11_Witness ==
  /\ event \in Events
  /\ event["Step"] = FINISHSECRET
  /\ result = Returned(Response)
  /\ Len(calls) = 1
  /\ calls[1].op = "update_secret_version_stage"
  /\ HasLabel(TokenOf(event), AWSCURRENT)

\* a step that names no handler was given a pending token and returned success
C11_WitnessUnknown ==
  /\ event \in Events
  /\ event["Step"] = rollback
  /\ HasLabel(TokenOf(event), AWSPENDING)
  /\ ~HasLabel(TokenOf(event), AWSCURRENT)
  /\ result = Returned(Response)
  /\ calls = <<>>

\* the elements of a sequence
Range(s) == { s[i] : i \in 1..Len(s) }

\* with labels V, values S and rules R: key3 of the AWSCURRENT value, the key
\* clients send, is among the values of every X-AWS-API-KEY condition of every
\* non-default rule of the selected load balancers
ServedIn(V, S, R) ==
  \E v \in DOMAIN V :
    /\ AWSCURRENT \in V[v]
    /\ v \in DOMAIN S
    /\ json_loads(S[v]).ok
    /\ key3 \in DOMAIN json_loads(S[v]).val
    /\ \A arn \in SelectedRuleArns :
         ~R[arn].IsDefault =>
           \A j \in 1..Len(R[arn].Conditions) :
             IsSentinel(R[arn].Conditions[j]) =>
               json_loads(S[v]).val[key3]
                 \in Range(R[arn].Conditions[j].HttpHeaderConfig.Values)

Served == ServedIn(VersionIdsToStages, SecretString, Rules)

\* C12 as stated, at the set step: when key3 of the AWSCURRENT value is among
\* the values of every synchronized X-AWS-API-KEY condition before a set step,
\* it is among them after it.
C12_AsStated ==
  [][(Served /\ event' \in SetEvents) =>
       ServedIn(VersionIdsToStages', SecretString', Rules')]_vars

\* every X-AWS-API-KEY condition of every non-default rule of the selected load
\* balancers has the value list [key3 of the value stored for version v]
SyncedWith(v) ==
  /\ v \in DOMAIN SecretString
  /\ json_loads(SecretString[v]).ok
  /\ key3 \in DOMAIN json_loads(SecretString[v]).val
  /\ \A arn \in SelectedRuleArns :
       ~Rules[arn].IsDefault =>
         \A j \in 1..Len(Rules[arn].Conditions) :
           IsSentinel(Rules[arn].Conditions[j]) =>
             Rules[arn].Conditions[j].HttpHeaderConfig.Values
               = << json_loads(SecretString[v]).val[key3] >>

\* C13 as stated: when a finish step has moved AWSCURRENT onto its token, a set
\* step for that token has gone before it, so the rules carry the token's key3
\* (only a set step writes rules, and it writes the pending key3).
C13_AsStated ==
  (event \in FinishEvents /\ calls # <<>>) => SyncedWith(TokenOf(event))

\* C14 as stated: a set step that succeeded has updated every non-default rule
\* with an X-AWS-API-KEY condition on every selected load balancer, also when
\* the listings of load balancers, listeners and rules span several pages.
C14_AsStated ==
  (event \in SetEvents /\ result = Returned(Response)) => SyncedWith(TokenOf(event))

\* the non-default rules of the selected load balancers that carry an
\* X-AWS-API-KEY condition
EligibleRuleArns ==
  { arn \in SelectedRuleArns : ~Rules[arn].IsDefault /\ HasSentinel(Rules[arn]) }

\* C15 as stated: when a rule update failed in a set step, the invocation does
\* not return success and an update was attempted for every eligible rule.
C15_AsStated ==
  (event \in SetEvents /\ calls # <<>> /\ calls[Len(calls)].RuleArn \in Unavailable) =>
    /\ result.exc # "none"
    /\ \A arn \in EligibleRuleArns : \E i \in 1..Len(calls) : calls[i].RuleArn = arn

C17_AsStated ==
  (Holders(AWSCURRENT) = {Token(2)} /\ Token(2) \in DOMAIN SecretString) =>
    LET P == json_loads(SecretString[Token(0)]).val
        first == json_loads(SecretString[Token(1)])
        second == json_loads(SecretString[Token(2)])
    IN /\ first.ok
       /\ second.ok
       /\ second.val[key1] = P[key3]
       /\ second.val[key2] = first.val[key3]
       /\ Len(second.val[key3]) = KeySize
       /\ \A i \in 1..Len(second.val[key3]) : second.val[key3][i] \in Alphanumeric
       /\ \A k \in {key1, key2, key3} : second.val[k] \notin {P[key1], P[key2]}

C19_OwnVersion ==
  [][/\ (event' \in SetEvents /\ calls' # <<>>) =>
          /\ TokenOf(event') \in DOMAIN SecretString
          /\ HasLabel(TokenOf(event'), AWSPENDING)
          /\ json_loads(SecretString[TokenOf(event')]).ok
          /\ \A i \in 1..Len(calls') : \A j \in 1..Len(calls'[i].Conditions) :
               IsSentinel(calls'[i].Conditions[j]) =>
                 calls'[i].Conditions[j].HttpHeaderConfig.Values
                   = << json_loads(SecretString[TokenOf(event')]).val[key3] >>
     /\ (event' \in FinishEvents /\ calls' # <<>>) =>
          /\ TokenOf(event') \in DOMAIN SecretString
          /\ HasLabel(TokenOf(event'), AWSPENDING)]_vars

\* the set step of the second rotation pushed a key while two older versions
\* had stored values
C19_Witness ==
  /\ event \in SetEvents
  /\ TokenOf(event) = Token(2)
  /\ result = Returned(Response)
  /\ calls # <<>>
  /\ {Token(0), Token(1), Token(2)} \subseteq DOMAIN SecretString
  /\ Holders(AWSCURRENT) = {Token(1)}

\* C20 as stated: when the create, set, test and finish steps for a token have
\* each succeeded, in that order and with nothing in between, the token holds
\* AWSCURRENT and every X-AWS-API-KEY condition of every non-default rule of
\* every selected load balancer has the value list [key3 of the AWSCURRENT value].
C20_AsStated ==
  (event \in FinishEvents /\ result = Returned(Response)) =>
    /\ Holders(AWSCURRENT) = {TokenOf(event)}
    /\ SyncedWith(TokenOf(event))

====
